---- MODULE Spec2Model ----
(***************************************************************************)
(* Model of the conversation sentiment and alerting engine:                *)
(*   src/src/alerts.py        SentimentAlertManager                        *)
(*   src/src/conversation.py  ConversationManager                          *)
(*                                                                         *)
(* Python objects are modelled with their identity.  An alert (a dict) is  *)
(* a cell of `heap` and a list holds references to cells, so a shallow     *)
(* copy (list.copy()) is another list holding the same references.  The    *)
(* list a caller holds is either a list of its own or the very list the    *)
(* manager's field is bound to ("alias").                                  *)
(***************************************************************************)
EXTENDS Integers, Sequences, FiniteSets, TLC

\* ------------------------------------------------------------------ bounds
MaxAlerts == 2      \* alerts constructed in one run
MaxMsgs == 2        \* messages constructed in one run
MaxTime == 1        \* largest reading of the wall clock

\* ------------------------------------------------------- program constants
DefaultThreshold == 30      \* __init__(threshold=30.0)
DefaultScore == 50          \* sentiment_result.get('score', 50)
ThresholdMin == 0           \* set_threshold: 0 <= threshold
ThresholdMax == 100         \* set_threshold: threshold <= 100
CriticalBelow == 10         \* _calculate_severity
HighBelow == 20
MediumBelow == 30

\* ------------------------------------------------------------------ inputs
NoRef == -1                                     \* Python None, for a reference
NoMessage == "<None>"                           \* Python None, for message
Scores == {0, 29, 30}                          \* below, just below, at the default
BandScores == {0, 9, 10, 19, 20, 29, 30, 35}    \* both sides of every severity band
ThresholdArgs == {DefaultThreshold, 150}        \* constructor arguments
SetThresholdArgs == {-1, 0, 100, 101}           \* both sides of both range ends
Callbacks == {"none", "returns", "raises"}      \* alert_callback argument
\* sentiment results handed to check_statement_sentiment: dicts with or
\* without a 'score' key
SentimentResults(S) ==
    {[label |-> "neutral"]} \cup {[label |-> "any", score |-> s] : s \in S}
TamperValues == {999}                           \* what an outside writer stores
TamperTexts == {"edited"}                       \* what a caller writes into a message
Roles == {"user", "assistant", "system"}        \* role arguments, one not allowed
Contents == {"", "hi"}                          \* content arguments, one empty
NoId == "<None>"                                \* Python None, for session_id
SessionIdArgs == {NoId, "", "s1"}               \* session_id arguments
NoSession == [present |-> FALSE, session_id |-> "", created_at |-> 0, updated_at |-> 0,
              history |-> <<>>]                 \* no session loaded yet
Den == 100                                      \* probabilities are counted in hundredths
Probs == {0, 1, 10, 33, 34, 50, 58, 60, 80, 99, 100}
\* the scores dicts: a probability for each of self.labels, summing to one
ScoreDicts ==
    {[negative |-> pr[1], neutral |-> Den - pr[1] - pr[2], positive |-> pr[2]] :
        pr \in {qr \in Probs \X Probs : qr[1] + qr[2] <= Den}}
Labels == {"negative", "neutral", "positive", "mixed"}   \* the last is no label of the model
Texts == {"", "  ", "ok"}                       \* texts: empty, blanks only, words
\* what analyze puts in 'scores' for a text without words: 0.33, 0.34, 0.33
EmptyTextScores == [negative |-> 33, neutral |-> 34, positive |-> 33]
NoAnalysis == [label |-> "", confidence |-> 0,
               scores |-> [negative |-> 0, neutral |-> 0, positive |-> 0],
               has_score |-> FALSE, score |-> 0]            \* no call made yet
MaxRows == 3                                    \* messages handed to an export
MaxResults == 2                                 \* sentiment results handed to an export
LongContent == "<more than 100 characters>"     \* a message too long for the PDF table
ExportRoles == {"user", "assistant"}
ExportContents == {"hi", LongContent}
\* results as analyze returns them: with a score, and for empty text without
ExportResults ==
    {[label |-> "negative", confidence |-> 80, has_score |-> TRUE, score |-> 10],
     [label |-> "neutral", confidence |-> 0, has_score |-> FALSE, score |-> 0]}
NoExport == [conversation_history |-> <<>>, given |-> FALSE, sentiment_results |-> <<>>,
             csv_done |-> FALSE, csv |-> <<>>, pdf_done |-> FALSE, pdf |-> <<>>]
NoWriter == [open |-> FALSE, pending |-> <<>>]   \* no save under way
NoFile == [exists |-> FALSE, text |-> <<>>]     \* no file at the path

VARIABLES
    threshold,        \* self.threshold
    alert_callback,   \* self.alert_callback
    alert_enabled,    \* self.alert_enabled
    alert_history,    \* the list self.alert_history is bound to: alert references
    heap,             \* alert dicts, in order of construction (reference = index)
    returned,         \* the list the caller got from get_alert_history, if any
    cbLog,            \* the alerts the callback was invoked with, in order
    now,              \* the last reading of the wall clock, datetime.now()
    lastOp,           \* the call made by the last step and its outcome
    session_id,       \* ConversationManager: self.session_id
    created_at,       \* self.created_at
    updated_at,       \* self.updated_at
    history,          \* the list self.history is bound to: message references
    msgs,             \* message dicts, in order of construction (reference = index)
    got_history,      \* the list the caller got from get_history, if any
    file,             \* the file at the path save_to_file writes: its text, if any
    loaded,           \* the session load_from_file built last, if any
    writer,           \* a save_to_file under way: the tokens it has still to write
    analysis,         \* the dict the analyzer's last call worked on or returned
    export            \* the exporter's arguments and the tables made from them

alertVars == <<threshold, alert_callback, alert_enabled, alert_history, heap,
               returned, cbLog>>
convVars == <<session_id, created_at, updated_at, history, msgs, got_history, file,
              loaded, writer>>
vars == <<alertVars, now, lastOp, convVars, analysis, export>>

\* ----------------------------------------------------------------- helpers
\* a call and its outcome: the operation, its numeric argument, the reference
\* or number it returned, whether it raised; for the session's operations the
\* role and content arguments and the lines or texts returned
Op(name, arg, result, raised) ==
    [op |-> name, arg |-> arg, result |-> result, raised |-> raised,
     role |-> "", content |-> "", value |-> <<>>]
OpMsg(role, content, raised) ==
    [op |-> "add_message", arg |-> 0, result |-> NoRef, raised |-> raised,
     role |-> role, content |-> content, value |-> <<>>]
OpValue(name, value) ==
    [op |-> name, arg |-> 0, result |-> NoRef, raised |-> FALSE,
     role |-> "", content |-> "", value |-> value]

\* the lists a caller can hold
NoList == [held |-> "none", items |-> <<>>]
OwnList(items) == [held |-> "own", items |-> items]
AliasList == [held |-> "alias", items |-> <<>>]

\* the references in the list the caller holds
ReturnedItems == IF returned.held = "alias" THEN alert_history ELSE returned.items

IsPrefix(s, t) == Len(s) <= Len(t) /\ \A i \in 1 .. Len(s) : s[i] = t[i]

\* --------------------------------------------------- SentimentAlertManager
\* fault: the band ends taken as inclusive
_calculate_severity_le(score) ==
    IF score <= CriticalBelow THEN "critical"
    ELSE IF score <= HighBelow THEN "high"
    ELSE IF score <= MediumBelow THEN "medium"
    ELSE "low"
\* the severity of a score: fixed bands
_calculate_severity(score) ==
    IF score < CriticalBelow THEN "critical"
    ELSE IF score < HighBelow THEN "high"
    ELSE IF score < MediumBelow THEN "medium"
    ELSE "low"

\* SentimentAlertManager.__init__(threshold, alert_callback)
InitAlerts(T, C) ==
    /\ threshold \in T
    /\ alert_callback \in C
    /\ alert_enabled = TRUE
    /\ alert_history = <<>>
    /\ heap = <<>>
    /\ returned = NoList
    /\ cbLog = <<>>

\* fault: a score equal to the threshold qualifies
ShouldAlert_le(sentiment_score) == alert_enabled /\ sentiment_score <= threshold
\* fault: the enabled flag is not consulted
ShouldAlert_always(sentiment_score) == sentiment_score < threshold
\* the two tests of check_sentiment: the enabled flag, then score < threshold
ShouldAlert(sentiment_score) == alert_enabled /\ sentiment_score < threshold

\* fault: the callback is invoked before the append, so its exception skips it
record_then_dispatch_swapped(name, sentiment_score, ref) ==
    IF alert_callback = "raises"
    THEN /\ alert_history' = alert_history
         /\ cbLog' = Append(cbLog, ref)
         /\ lastOp' = Op(name, sentiment_score, NoRef, TRUE)
    ELSE /\ alert_history' = Append(alert_history, ref)
         /\ cbLog' = IF alert_callback = "none" THEN cbLog ELSE Append(cbLog, ref)
         /\ lastOp' = Op(name, sentiment_score, ref, FALSE)
\* self.alert_history.append(alert); the callback, if set; return alert.
\* A callback that raises ends the call with its exception: nothing is returned.
record_then_dispatch(name, sentiment_score, ref) ==
    /\ alert_history' = Append(alert_history, ref)
    /\ IF alert_callback = "none"
       THEN /\ cbLog' = cbLog
            /\ lastOp' = Op(name, sentiment_score, ref, FALSE)
       ELSE /\ cbLog' = Append(cbLog, ref)
            /\ IF alert_callback = "raises"
               THEN lastOp' = Op(name, sentiment_score, NoRef, TRUE)
               ELSE lastOp' = Op(name, sentiment_score, ref, FALSE)

check_sentiment_body(name, sentiment_score, message) ==
    IF ShouldAlert(sentiment_score)
    THEN LET alert == [timestamp |-> now,
                       score |-> sentiment_score,
                       threshold |-> threshold,
                       message |-> message,
                       severity |-> _calculate_severity(sentiment_score)]
         IN  /\ Len(heap) < MaxAlerts
             /\ heap' = Append(heap, alert)
             /\ record_then_dispatch(name, sentiment_score, Len(heap) + 1)
    ELSE /\ lastOp' = Op(name, sentiment_score, NoRef, FALSE)
         /\ UNCHANGED <<alert_history, heap, cbLog>>

check_sentiment(S, M) ==
    \E sentiment_score \in S, message \in M :
        /\ check_sentiment_body("check_sentiment", sentiment_score, message)
        /\ UNCHANGED <<threshold, alert_callback, alert_enabled, returned, now, convVars,
                      analysis, export>>

\* score = sentiment_result.get('score', 50), then check_sentiment(score, message)
check_statement_sentiment_result(D, M) ==
    \E sentiment_result \in D, message \in M :
        LET score == IF "score" \in DOMAIN sentiment_result
                     THEN sentiment_result.score ELSE DefaultScore
        IN  /\ check_sentiment_body("check_statement_sentiment", score, message)
            /\ UNCHANGED <<threshold, alert_callback, alert_enabled, returned, now, convVars,
                          analysis, export>>

check_statement_sentiment(S, M) == check_statement_sentiment_result(SentimentResults(S), M)

\* fault: the range ends are excluded
set_threshold_strict(A) ==
    \E v \in A :
        /\ threshold' = IF ThresholdMin < v /\ v < ThresholdMax THEN v ELSE threshold
        /\ lastOp' = Op("set_threshold", v, NoRef, FALSE)
        /\ UNCHANGED <<alert_callback, alert_enabled, alert_history, heap,
                       returned, cbLog, now, convVars, analysis, export>>
\* if 0 <= threshold <= 100: self.threshold = threshold
set_threshold(A) ==
    \E v \in A :
        /\ threshold' = IF ThresholdMin <= v /\ v <= ThresholdMax THEN v ELSE threshold
        /\ lastOp' = Op("set_threshold", v, NoRef, FALSE)
        /\ UNCHANGED <<alert_callback, alert_enabled, alert_history, heap,
                       returned, cbLog, now, convVars, analysis, export>>

enable_alerts ==
    /\ alert_enabled' = TRUE
    /\ lastOp' = Op("enable_alerts", 0, NoRef, FALSE)
    /\ UNCHANGED <<threshold, alert_callback, alert_history, heap, returned,
                   cbLog, now, convVars, analysis, export>>

disable_alerts ==
    /\ alert_enabled' = FALSE
    /\ lastOp' = Op("disable_alerts", 0, NoRef, FALSE)
    /\ UNCHANGED <<threshold, alert_callback, alert_history, heap, returned,
                   cbLog, now, convVars, analysis, export>>

\* return self.alert_history.copy(): a list of the caller's own, holding the
\* same alert references.  The caller keeps the newest list it was handed.
get_alert_history ==
    /\ returned' = OwnList(alert_history)
    /\ lastOp' = Op("get_alert_history", 0, NoRef, FALSE)
    /\ UNCHANGED <<threshold, alert_callback, alert_enabled, alert_history, heap,
                   cbLog, now, convVars, analysis, export>>

\* fault: the history is cleared only while alerts are enabled
clear_alerts_if_enabled ==
    /\ alert_history' = IF alert_enabled THEN <<>> ELSE alert_history
    /\ returned' = IF returned.held = "alias" /\ alert_enabled
                   THEN OwnList(alert_history) ELSE returned
    /\ lastOp' = Op("clear_alerts", 0, NoRef, FALSE)
    /\ UNCHANGED <<threshold, alert_callback, alert_enabled, heap, cbLog, now, convVars,
                  analysis, export>>
\* self.alert_history = []: the field is bound to a new, empty list; a caller
\* holding the old list keeps it as it is
clear_alerts ==
    /\ alert_history' = <<>>
    /\ returned' = IF returned.held = "alias" THEN OwnList(alert_history) ELSE returned
    /\ lastOp' = Op("clear_alerts", 0, NoRef, FALSE)
    /\ UNCHANGED <<threshold, alert_callback, alert_enabled, heap, cbLog, now, convVars,
                  analysis, export>>

\* ------------------------------------------------------------- environment
\* the caller removes the last element of the list it holds
CallerPopsReturned ==
    /\ returned.held # "none"
    /\ ReturnedItems # <<>>
    /\ IF returned.held = "alias"
       THEN /\ alert_history' = SubSeq(alert_history, 1, Len(alert_history) - 1)
            /\ returned' = returned
       ELSE /\ returned' = OwnList(SubSeq(returned.items, 1, Len(returned.items) - 1))
            /\ alert_history' = alert_history
    /\ lastOp' = Op("caller_pop", 0, NoRef, FALSE)
    /\ UNCHANGED <<threshold, alert_callback, alert_enabled, heap, cbLog, now, convVars,
                  analysis, export>>

\* the caller writes returned_list[i]['threshold'] = v
CallerWritesReturnedAlert ==
    /\ \E i \in 1 .. Len(ReturnedItems), v \in TamperValues :
          /\ heap[ReturnedItems[i]].threshold # v
          /\ heap' = [heap EXCEPT ![ReturnedItems[i]].threshold = v]
    /\ lastOp' = Op("caller_write", 0, NoRef, FALSE)
    /\ UNCHANGED <<threshold, alert_callback, alert_enabled, alert_history,
                   returned, cbLog, now, convVars, analysis, export>>

\* the callback's owner writes alert['threshold'] = v on an alert it was handed
CallbackOwnerWritesAlert ==
    /\ \E i \in 1 .. Len(cbLog), v \in TamperValues :
          /\ heap[cbLog[i]].threshold # v
          /\ heap' = [heap EXCEPT ![cbLog[i]].threshold = v]
    /\ lastOp' = Op("callback_write", 0, NoRef, FALSE)
    /\ UNCHANGED <<threshold, alert_callback, alert_enabled, alert_history,
                   returned, cbLog, now, convVars, analysis, export>>

\* ----------------------------------------------------- ConversationManager
\* datetime.now(): a reading of the wall clock, not before the last one
Readings == now .. MaxTime

\* f"session_{datetime.now().strftime('%Y%m%d_%H%M%S')}"
_generate_session_id(t) == "session_" \o ToString(t)

\* __init__(session_id): the id argument unless it is None or empty; the
\* clock is read for the generated id, for created_at and for updated_at
InitConv(I, T) ==
    \E sid \in I, t0 \in T :
      \E t1 \in t0 .. MaxTime :
        \E t2 \in t1 .. MaxTime :
            /\ history = <<>>
            /\ msgs = <<>>
            /\ session_id = IF sid = NoId \/ sid = "" THEN _generate_session_id(t0) ELSE sid
            /\ created_at = t1
            /\ updated_at = t2
            /\ now = t2
            /\ got_history = NoList
            /\ file = NoFile
            /\ loaded = NoSession
            /\ writer = NoWriter
            /\ lastOp = Op("__init__", 0, NoRef, FALSE)

\* the messages a list of references leads to, as values
DerefMsgs(h, l) == [i \in 1 .. Len(l) |-> h[l[i]]]

\* fault: the message is put in front of the history
add_message_prepend(R, C) ==
    \E role \in R, content \in C :
        IF role \notin {"user", "assistant"}
        THEN /\ lastOp' = OpMsg(role, content, TRUE)
             /\ UNCHANGED <<alertVars, now, convVars, analysis, export>>
        ELSE \E t1 \in Readings :
               \E t2 \in t1 .. MaxTime :
                 /\ Len(msgs) < MaxMsgs
                 /\ msgs' = Append(msgs, [role |-> role, content |-> content,
                                          timestamp |-> t1])
                 /\ history' = <<Len(msgs) + 1>> \o history
                 /\ updated_at' = t2
                 /\ now' = t2
                 /\ lastOp' = OpMsg(role, content, FALSE)
                 /\ UNCHANGED <<alertVars, session_id, created_at, got_history, file,
                                loaded, writer, analysis, export>>
\* a role other than 'user' and 'assistant' raises ValueError; otherwise the
\* message is appended with a reading of the clock and updated_at is set to
\* a later reading
add_message(R, C) ==
    \E role \in R, content \in C :
        IF role \notin {"user", "assistant"}
        THEN /\ lastOp' = OpMsg(role, content, TRUE)
             /\ UNCHANGED <<alertVars, now, convVars, analysis, export>>
        ELSE \E t1 \in Readings :
               \E t2 \in t1 .. MaxTime :
                 /\ Len(msgs) < MaxMsgs
                 /\ msgs' = Append(msgs, [role |-> role, content |-> content,
                                          timestamp |-> t1])
                 /\ history' = Append(history, Len(msgs) + 1)
                 /\ updated_at' = t2
                 /\ now' = t2
                 /\ lastOp' = OpMsg(role, content, FALSE)
                 /\ UNCHANGED <<alertVars, session_id, created_at, got_history, file,
                                loaded, writer, analysis, export>>

\* return self.history.copy(): a list of the caller's own, the same references
get_history ==
    /\ got_history' = OwnList(history)
    /\ lastOp' = Op("get_history", 0, NoRef, FALSE)
    /\ UNCHANGED <<alertVars, now, session_id, created_at, updated_at, history,
                   msgs, file, loaded, writer, analysis, export>>

UserContents ==
    LET users == SelectSeq(history, LAMBDA r : msgs[r].role = "user")
    IN  [i \in 1 .. Len(users) |-> msgs[users[i]].content]

\* one line per message, "User: ..." or "Chatbot: ..."
format_for_sentiment ==
    /\ lastOp' = OpValue("format_for_sentiment",
                         [i \in 1 .. Len(history) |->
                            (IF msgs[history[i]].role = "user" THEN "User" ELSE "Chatbot")
                                \o ": " \o msgs[history[i]].content])
    /\ UNCHANGED <<alertVars, now, convVars, analysis, export>>

\* get_conversation_text and get_user_messages: the user messages' contents
get_user_messages ==
    /\ lastOp' = OpValue("get_user_messages", UserContents)
    /\ UNCHANGED <<alertVars, now, convVars, analysis, export>>

\* get_message_count, is_empty
get_message_count ==
    /\ lastOp' = Op("get_message_count", 0, Len(history), FALSE)
    /\ UNCHANGED <<alertVars, now, convVars, analysis, export>>

get_user_message_count ==
    /\ lastOp' = Op("get_user_message_count", 0, Len(UserContents), FALSE)
    /\ UNCHANGED <<alertVars, now, convVars, analysis, export>>

\* self.history = []: the field is bound to a new, empty list
clear ==
    /\ history' = <<>>
    /\ got_history' = IF got_history.held = "alias" THEN OwnList(history) ELSE got_history
    /\ lastOp' = Op("clear", 0, NoRef, FALSE)
    /\ UNCHANGED <<alertVars, now, session_id, created_at, updated_at, msgs, file,
                   loaded, writer, analysis, export>>

\* ---- the JSON text of a session, as the tokens json.dump writes
\* datetime.now().isoformat(): the text of a clock reading
isoformat(t) == "T" \o ToString(t)

\* a string as JSON writes it
JsonString(s) == "\"" \o s \o "\""

\* the strings a session can hold
SessionStrings ==
    Roles \union Contents \union TamperTexts \union SessionIdArgs
        \union {_generate_session_id(t) : t \in 0 .. MaxTime}
        \union {isoformat(t) : t \in 0 .. MaxTime}

IsJsonString(tok) == \E s \in SessionStrings : JsonString(s) = tok
ParseString(tok) == CHOOSE s \in SessionStrings : JsonString(s) = tok
IsJsonTime(tok) == \E t \in 0 .. MaxTime : JsonString(isoformat(t)) = tok
ParseTime(tok) == CHOOSE t \in 0 .. MaxTime : JsonString(isoformat(t)) = tok

JsonMessage(m) ==
    <<"{", JsonString("role"), JsonString(m.role),
           JsonString("content"), JsonString(m.content),
           JsonString("timestamp"), JsonString(isoformat(m.timestamp)), "}">>

RECURSIVE JsonMessages(_)
JsonMessages(ms) ==
    IF ms = <<>> THEN <<>> ELSE JsonMessage(Head(ms)) \o JsonMessages(Tail(ms))

JsonHead(d) ==
    <<"{", JsonString("session_id"), JsonString(d.session_id),
           JsonString("created_at"), JsonString(isoformat(d.created_at)),
           JsonString("updated_at"), JsonString(isoformat(d.updated_at)),
           JsonString("history"), "[">>

JsonTail == <<"]", "}">>

\* json.dump(data): the whole document
json_dump(d) == JsonHead(d) \o JsonMessages(d.history) \o JsonTail

\* the dict save_to_file and to_dict build from the session
to_dict ==
    [session_id |-> session_id, created_at |-> created_at, updated_at |-> updated_at,
     history |-> DerefMsgs(msgs, history)]

HeadLen == Len(JsonHead([session_id |-> "", created_at |-> 0, updated_at |-> 0]))
MsgLen == Len(JsonMessage([role |-> "", content |-> "", timestamp |-> 0]))
TailLen == Len(JsonTail)

\* the k-th message object of a document, read back
ParseMessage(text, k) ==
    LET base == HeadLen + (k - 1) * MsgLen
    IN  [role |-> ParseString(text[base + 3]),
         content |-> ParseString(text[base + 5]),
         timestamp |-> ParseTime(text[base + 7])]

IsJsonMessage(text, k) ==
    LET base == HeadLen + (k - 1) * MsgLen
    IN  /\ text[base + 1] = "{"
        /\ text[base + 2] = JsonString("role") /\ IsJsonString(text[base + 3])
        /\ text[base + 4] = JsonString("content") /\ IsJsonString(text[base + 5])
        /\ text[base + 6] = JsonString("timestamp") /\ IsJsonTime(text[base + 7])
        /\ text[base + 8] = "}"

\* json.load accepts the text: it is one complete document
IsDocument(text) ==
    /\ Len(text) >= HeadLen + TailLen
    /\ (Len(text) - HeadLen - TailLen) % MsgLen = 0
    /\ text[1] = "{"
    /\ text[2] = JsonString("session_id") /\ IsJsonString(text[3])
    /\ text[4] = JsonString("created_at") /\ IsJsonTime(text[5])
    /\ text[6] = JsonString("updated_at") /\ IsJsonTime(text[7])
    /\ text[8] = JsonString("history") /\ text[9] = "["
    /\ \A k \in 1 .. (Len(text) - HeadLen - TailLen) \div MsgLen : IsJsonMessage(text, k)
    /\ SubSeq(text, Len(text) - TailLen + 1, Len(text)) = JsonTail

\* json.load(f): the dict the document stands for
json_load(text) ==
    [session_id |-> ParseString(text[3]),
     created_at |-> ParseTime(text[5]),
     updated_at |-> ParseTime(text[7]),
     history |-> [k \in 1 .. (Len(text) - HeadLen - TailLen) \div MsgLen |->
                     ParseMessage(text, k)]]

\* open(filepath, 'w') and json.dump of the session's dict to it
save_to_file ==
    /\ file' = [exists |-> TRUE, text |-> json_dump(to_dict)]
    /\ lastOp' = Op("save_to_file", 0, NoRef, FALSE)
    /\ UNCHANGED <<alertVars, now, session_id, created_at, updated_at, history,
                   msgs, got_history, loaded, writer, analysis, export>>

\* ---- save_to_file step by step, as another process or a crash meets it
\* data is built, then open(filepath, 'w') creates the file or cuts it to nothing
save_to_file_open ==
    /\ ~writer.open
    /\ writer' = [open |-> TRUE, pending |-> json_dump(to_dict)]
    /\ file' = [exists |-> TRUE, text |-> <<>>]
    /\ lastOp' = Op("save_to_file_open", 0, NoRef, FALSE)
    /\ UNCHANGED <<alertVars, now, session_id, created_at, updated_at, history,
                   msgs, got_history, loaded, analysis, export>>

\* json.dump hands the document to the file piece by piece
save_to_file_write ==
    /\ writer.open
    /\ writer.pending # <<>>
    /\ file' = [file EXCEPT !.text = Append(@, Head(writer.pending))]
    /\ writer' = [writer EXCEPT !.pending = Tail(@)]
    /\ lastOp' = Op("save_to_file_write", 0, NoRef, FALSE)
    /\ UNCHANGED <<alertVars, now, session_id, created_at, updated_at, history,
                   msgs, got_history, loaded, analysis, export>>

\* the with block ends: the file is closed and save_to_file returns
save_to_file_close ==
    /\ writer.open
    /\ writer.pending = <<>>
    /\ writer' = NoWriter
    /\ lastOp' = Op("save_to_file", 0, NoRef, FALSE)
    /\ UNCHANGED <<alertVars, now, session_id, created_at, updated_at, history,
                   msgs, got_history, file, loaded, analysis, export>>

\* the process dies inside save_to_file: what is in the file stays
Crash ==
    /\ writer.open
    /\ writer' = NoWriter
    /\ lastOp' = Op("crash", 0, NoRef, FALSE)
    /\ UNCHANGED <<alertVars, now, session_id, created_at, updated_at, history,
                   msgs, got_history, file, loaded, analysis, export>>

\* fault: the loaded session is constructed without the stored id
load_from_file_fresh_id ==
    IF ~file.exists \/ ~IsDocument(file.text)
    THEN /\ lastOp' = Op("load_from_file", 0, NoRef, TRUE)
         /\ UNCHANGED <<alertVars, now, convVars, analysis, export>>
    ELSE \E t0 \in Readings :
           \E t1 \in t0 .. MaxTime :
             LET data == json_load(file.text)
             IN  /\ loaded' = [present |-> TRUE,
                               session_id |-> _generate_session_id(t0),
                               created_at |-> data.created_at,
                               updated_at |-> data.updated_at,
                               history |-> data.history]
                 /\ now' = t1
                 /\ lastOp' = Op("load_from_file", 0, NoRef, FALSE)
                 /\ UNCHANGED <<alertVars, session_id, created_at, updated_at, history,
                                msgs, got_history, file, writer, analysis, export>>

\* json.load of the file, then a new session given the stored id and fields; the
\* constructor and the two defaults read the clock
load_from_file ==
    IF ~file.exists \/ ~IsDocument(file.text)
    THEN /\ lastOp' = Op("load_from_file", 0, NoRef, TRUE)
         /\ UNCHANGED <<alertVars, now, convVars, analysis, export>>
    ELSE \E t0 \in Readings :
           \E t1 \in t0 .. MaxTime :
             LET data == json_load(file.text)
             IN  /\ loaded' = [present |-> TRUE,
                               session_id |-> IF data.session_id = ""
                                              THEN _generate_session_id(t0)
                                              ELSE data.session_id,
                               created_at |-> data.created_at,
                               updated_at |-> data.updated_at,
                               history |-> data.history]
                 /\ now' = t1
                 /\ lastOp' = Op("load_from_file", 0, NoRef, FALSE)
                 /\ UNCHANGED <<alertVars, session_id, created_at, updated_at, history,
                                msgs, got_history, file, writer, analysis, export>>

\* the references in the list the caller got from get_history
GotItems == IF got_history.held = "alias" THEN history ELSE got_history.items

\* the caller removes the last element of the list get_history handed out
CallerPopsGotHistory ==
    /\ got_history.held # "none"
    /\ GotItems # <<>>
    /\ IF got_history.held = "alias"
       THEN /\ history' = SubSeq(history, 1, Len(history) - 1)
            /\ got_history' = got_history
       ELSE /\ got_history' = OwnList(SubSeq(got_history.items, 1,
                                             Len(got_history.items) - 1))
            /\ history' = history
    /\ lastOp' = Op("caller_pop", 0, NoRef, FALSE)
    /\ UNCHANGED <<alertVars, now, session_id, created_at, updated_at, msgs, file,
                   loaded, writer, analysis, export>>

\* the caller writes got[i]['content'] = text on a message of that list
CallerWritesGotMessage ==
    /\ \E i \in 1 .. Len(GotItems), text \in TamperTexts :
          /\ msgs[GotItems[i]].content # text
          /\ msgs' = [msgs EXCEPT ![GotItems[i]].content = text]
    /\ lastOp' = Op("caller_write", 0, NoRef, FALSE)
    /\ UNCHANGED <<alertVars, now, session_id, created_at, updated_at, history,
                   got_history, file, loaded, writer, analysis, export>>

\* time passes between two calls: the next datetime.now() reads a later clock
Tick ==
    /\ now < MaxTime
    /\ now' = now + 1
    /\ lastOp' = Op("tick", 0, NoRef, FALSE)
    /\ UNCHANGED <<alertVars, convVars, analysis, export>>

\* ------------------------------------------------------- sentiment analyzer
InitAnalyzer(A) == analysis \in A

\* int(x) of the real num / Den: the fraction is cut off, toward zero
int(num) == IF num >= 0 THEN num \div Den ELSE -((-num) \div Den)

Max(a, b) == IF a >= b THEN a ELSE b
Min(a, b) == IF a <= b THEN a ELSE b

\* fault: the positive branch rounds to the nearest integer
_calculate_sentiment_score_round(label, confidence, scores) ==
    IF label = "positive"
    THEN (50 * Den + scores.positive * 50 + Den \div 2) \div Den
    ELSE IF label = "negative"
    THEN int(50 * Den - scores.negative * 50)
    ELSE int(Max(0, Min(100 * Den, 50 * Den + (scores.positive - scores.negative) * 10)))

\* the 0-100 score of a label and its probabilities (in hundredths)
_calculate_sentiment_score(label, confidence, scores) ==
    IF label = "positive"
    THEN int(50 * Den + scores.positive * 50)
    ELSE IF label = "negative"
    THEN int(50 * Den - scores.negative * 50)
    ELSE int(Max(0, Min(100 * Den, 50 * Den + (scores.positive - scores.negative) * 10)))

\* the calls of _calculate_sentiment_score still to be made: a label and scores
PendingScoreCalls ==
    {[label |-> l, confidence |-> IF l = "mixed" THEN 0 ELSE sc[l], scores |-> sc,
      has_score |-> FALSE, score |-> 0] : l \in Labels, sc \in ScoreDicts}

\* sentiment_score = self._calculate_sentiment_score(label, confidence, score_dict)
score_call ==
    /\ analysis # NoAnalysis
    /\ ~analysis.has_score
    /\ analysis' = [analysis EXCEPT
                       !.has_score = TRUE,
                       !.score = _calculate_sentiment_score(analysis.label,
                                                            analysis.confidence,
                                                            analysis.scores)]
    /\ lastOp' = Op("_calculate_sentiment_score", 0, analysis'.score, FALSE)
    /\ UNCHANGED <<alertVars, now, convVars, export>>

\* text.strip(): blanks at both ends are removed
strip(text) == IF text = "  " THEN "" ELSE text

\* self.labels[scores.index(max(scores))]: the first label of the highest score
ArgMaxLabel(sc) ==
    IF sc.negative >= sc.neutral /\ sc.negative >= sc.positive THEN "negative"
    ELSE IF sc.neutral >= sc.positive THEN "neutral"
    ELSE "positive"

\* a text without words returns at once, with no 'score' key; any other text
\* goes through the model, whose probabilities are not the caller's choice
analyze_body(name, T) ==
    \E text \in T :
        /\ IF text = "" \/ strip(text) = ""
           THEN analysis' = [label |-> "neutral", confidence |-> 0,
                             scores |-> EmptyTextScores, has_score |-> FALSE, score |-> 0]
           ELSE \E sc \in ScoreDicts :
                  LET label == ArgMaxLabel(sc)
                  IN  analysis' = [label |-> label, confidence |-> sc[label], scores |-> sc,
                                   has_score |-> TRUE,
                                   score |-> _calculate_sentiment_score(label, sc[label], sc)]
        /\ lastOp' = [Op(name, 0, NoRef, FALSE) EXCEPT !.content = text]
        /\ UNCHANGED <<alertVars, now, convVars, export>>

analyze(T) == analyze_body("analyze", T)

\* return self.analyze(text)
analyze_statement(T) == analyze_body("analyze_statement", T)

\* the dict an analysis is for a caller: 'score' is a key only if it was set
AsDict(a) ==
    IF a.has_score THEN [label |-> a.label, score |-> a.score] ELSE [label |-> a.label]

\* ---------------------------------------------------------------- exporter
InitExport(E) == export \in E

SeqsUpTo(S, n) == UNION {[1 .. k -> S] : k \in 0 .. n}

\* sentiment_results: None, or a list of results
ResultArgs ==
    {[given |-> FALSE, items |-> <<>>]}
        \union {[given |-> TRUE, items |-> r] : r \in SeqsUpTo(ExportResults, MaxResults)}

\* the arguments of an export: a history that is not empty, and sentiment_results
ExportCalls ==
    {[NoExport EXCEPT !.conversation_history = h, !.given = a.given,
                      !.sentiment_results = a.items] :
        h \in SeqsUpTo([role : ExportRoles, content : ExportContents], MaxRows) \ {<<>>},
        a \in ResultArgs}

\* str.capitalize() of the roles and labels there are
capitalize(w) ==
    CASE w = "user" -> "User"
      [] w = "assistant" -> "Assistant"
      [] w = "negative" -> "Negative"
      [] w = "neutral" -> "Neutral"
      [] w = "positive" -> "Positive"
      [] OTHER -> w

\* content[:100] + "..." if len(content) > 100 else content
Shorten(content) ==
    IF content = LongContent THEN "<its first 100 characters>..." ELSE content

\* f"{confidence:.2%}" of a confidence counted in hundredths
Percent(confidence) == ToString(confidence) \o ".00%"

\* sent.get('score', 'N/A')
GetScore(sent) == IF sent.has_score THEN ToString(sent.score) ELSE "N/A"

\* msg['role'] == 'user' and sentiment_results and user_msg_index < len(sentiment_results)
TakesResult(msg, given, results, user_msg_index) ==
    /\ msg.role = "user"
    /\ given /\ results # <<>>
    /\ user_msg_index < Len(results)

\* fault: every message moves on to the next result
RECURSIVE CsvLoopAll(_, _, _, _, _)
CsvLoopAll(hist, given, results, i, user_msg_index) ==
    IF i > Len(hist) THEN <<>>
    ELSE LET msg == hist[i]
             head == <<ToString(i), msg.role, msg.content>>
         IN  IF TakesResult(msg, given, results, user_msg_index)
             THEN LET sent == results[user_msg_index + 1]
                  IN  <<head \o <<sent.label, GetScore(sent), Percent(sent.confidence)>>>>
                      \o CsvLoopAll(hist, given, results, i + 1, user_msg_index + 1)
             ELSE <<head \o <<"N/A", "N/A", "N/A">>>>
                      \o CsvLoopAll(hist, given, results, i + 1, user_msg_index + 1)

\* the loop of export_to_csv from message i on: the rows written
RECURSIVE CsvLoop(_, _, _, _, _)
CsvLoop(hist, given, results, i, user_msg_index) ==
    IF i > Len(hist) THEN <<>>
    ELSE LET msg == hist[i]
             head == <<ToString(i), msg.role, msg.content>>
         IN  IF TakesResult(msg, given, results, user_msg_index)
             THEN LET sent == results[user_msg_index + 1]
                  IN  <<head \o <<sent.label, GetScore(sent), Percent(sent.confidence)>>>>
                      \o CsvLoop(hist, given, results, i + 1, user_msg_index + 1)
             ELSE <<head \o <<"N/A", "N/A", "N/A">>>>
                      \o CsvLoop(hist, given, results, i + 1, user_msg_index)

\* the loop of export_to_pdf that fills table_data, from message i on
RECURSIVE PdfLoop(_, _, _, _, _)
PdfLoop(hist, given, results, i, user_msg_index) ==
    IF i > Len(hist) THEN <<>>
    ELSE LET msg == hist[i]
             head == <<ToString(i), capitalize(msg.role), Shorten(msg.content)>>
         IN  IF TakesResult(msg, given, results, user_msg_index)
             THEN LET sent == results[user_msg_index + 1]
                  IN  <<head \o <<capitalize(sent.label), GetScore(sent)>>>>
                      \o PdfLoop(hist, given, results, i + 1, user_msg_index + 1)
             ELSE <<head \o <<"-", "-">>>>
                      \o PdfLoop(hist, given, results, i + 1, user_msg_index)

CsvHeader == <<"Message Number", "Role", "Message", "Sentiment", "Score", "Confidence">>
PdfHeader == <<"#", "Role", "Message", "Sentiment", "Score">>

\* fault: see CsvLoopAll
CsvTableAll(hist, given, results) == <<CsvHeader>> \o CsvLoopAll(hist, given, results, 1, 0)

\* the rows export_to_csv writes: the header, then one row for each message
CsvTable(hist, given, results) == <<CsvHeader>> \o CsvLoop(hist, given, results, 1, 0)

\* table_data of export_to_pdf
PdfTable(hist, given, results) == <<PdfHeader>> \o PdfLoop(hist, given, results, 1, 0)

export_to_csv ==
    /\ export # NoExport
    /\ ~export.csv_done
    /\ export' = [export EXCEPT
                     !.csv_done = TRUE,
                     !.csv = CsvTable(export.conversation_history, export.given,
                                      export.sentiment_results)]
    /\ lastOp' = Op("export_to_csv", 0, NoRef, FALSE)
    /\ UNCHANGED <<alertVars, now, convVars, analysis>>

export_to_pdf ==
    /\ export # NoExport
    /\ ~export.pdf_done
    /\ export' = [export EXCEPT
                     !.pdf_done = TRUE,
                     !.pdf = PdfTable(export.conversation_history, export.given,
                                      export.sentiment_results)]
    /\ lastOp' = Op("export_to_pdf", 0, NoRef, FALSE)
    /\ UNCHANGED <<alertVars, now, convVars, analysis>>

\* -------------------------------------------------------------------- specs
AlertOps(S, M, A) ==
    \/ check_sentiment(S, M)
    \/ check_statement_sentiment(S, M)
    \/ set_threshold(A)
    \/ enable_alerts
    \/ disable_alerts

\* the manager and a caller that reads and clears the history
NextAlerts ==
    \/ AlertOps(Scores, {"help"}, SetThresholdArgs)
    \/ get_alert_history
    \/ clear_alerts

Init ==
    /\ InitAlerts({DefaultThreshold}, Callbacks)
    /\ InitConv({NoId}, {MaxTime})
    /\ InitAnalyzer({NoAnalysis})
    /\ InitExport({NoExport})

Spec == Init /\ [][NextAlerts]_vars

\* the same, with a caller and a callback owner that write to what they hold
NextAliasing ==
    \/ AlertOps(Scores, {"help"}, SetThresholdArgs)
    \/ get_alert_history
    \/ clear_alerts
    \/ CallerPopsReturned
    \/ CallerWritesReturnedAlert
    \/ CallbackOwnerWritesAlert

SpecAliasing == Init /\ [][NextAliasing]_vars

\* the manager alone, constructed with any threshold and fed scores on both
\* sides of every severity band
NextSeverity == AlertOps(BandScores, {NoMessage}, {40})

InitSeverity ==
    /\ InitAlerts(ThresholdArgs, {"none"})
    /\ InitConv({NoId}, {MaxTime})
    /\ InitAnalyzer({NoAnalysis})
    /\ InitExport({NoExport})

SpecSeverity == InitSeverity /\ [][NextSeverity]_vars

\* one conversation session and its caller: every operation
NextConv ==
    \/ add_message(Roles, {"hi"})
    \/ get_history
    \/ format_for_sentiment
    \/ get_user_messages
    \/ get_message_count
    \/ get_user_message_count
    \/ clear
    \/ save_to_file

InitSession ==
    /\ InitAlerts({DefaultThreshold}, {"none"})
    /\ InitConv(SessionIdArgs, 0 .. MaxTime)
    /\ InitAnalyzer({NoAnalysis}) /\ InitExport({NoExport})

SpecConv == InitSession /\ [][NextConv]_vars

\* the session fed every kind of role and content
NextAppend ==
    \/ add_message(Roles, Contents)
    \/ get_history
    \/ clear

SpecAppend == InitSession /\ [][NextAppend]_vars

\* the session and a caller that changes what get_history handed out
NextHistoryCopy ==
    \/ add_message(Roles, {"hi"})
    \/ get_history
    \/ clear
    \/ CallerPopsGotHistory
    \/ CallerWritesGotMessage

SpecHistoryCopy == InitSession /\ [][NextHistoryCopy]_vars

\* a session that is saved to and loaded from its file
NextPersist ==
    \/ add_message(Roles, Contents)
    \/ clear
    \/ save_to_file
    \/ load_from_file

\* a session constructed with or without an id when the clock is one short of its end
InitPersist ==
    /\ InitAlerts({DefaultThreshold}, {"none"})
    /\ InitConv({NoId, "s1"}, {MaxTime - 1})
    /\ InitAnalyzer({NoAnalysis})
    /\ InitExport({NoExport})

SpecPersist == InitPersist /\ [][NextPersist]_vars

\* a save in steps, with a crash and with another process loading the file
NextCrash ==
    \/ ~writer.open /\ add_message(Roles, {"hi"})
    \/ save_to_file_open
    \/ save_to_file_write
    \/ save_to_file_close
    \/ Crash
    \/ load_from_file

SpecCrash == InitPersist /\ [][NextCrash]_vars

\* texts are analyzed and the result is handed to the alert manager
InitAnalysis ==
    /\ InitAlerts({DefaultThreshold}, {"none"})
    /\ InitConv({NoId}, {MaxTime})
    /\ InitAnalyzer({NoAnalysis}) /\ InitExport({NoExport})

NextAnalysis ==
    \/ analyze(Texts)
    \/ analyze_statement(Texts)
    \/ analysis # NoAnalysis /\ check_statement_sentiment_result({AsDict(analysis)}, {"help"})

SpecAnalysis == InitAnalysis /\ [][NextAnalysis]_vars

\* one history and its results exported as CSV and as the PDF's table
InitExports ==
    /\ InitAlerts({DefaultThreshold}, {"none"})
    /\ InitConv({NoId}, {MaxTime})
    /\ InitAnalyzer({NoAnalysis})
    /\ InitExport(ExportCalls)

NextExport ==
    \/ export_to_csv
    \/ export_to_pdf

SpecExport == InitExports /\ [][NextExport]_vars

\* _calculate_sentiment_score applied to each label and scores dict
InitScore ==
    /\ InitAlerts({DefaultThreshold}, {"none"})
    /\ InitConv({NoId}, {MaxTime})
    /\ InitAnalyzer(PendingScoreCalls) /\ InitExport({NoExport})

NextScore == score_call

SpecScore == InitScore /\ [][NextScore]_vars

\* the mutating operations of a session while the clock runs
NextClock ==
    \/ add_message(Roles, {"hi"})
    \/ clear
    \/ Tick

SpecClock == InitSession /\ [][NextClock]_vars

\* ================================================================== claims
CheckOps == {"check_sentiment", "check_statement_sentiment"}

\* what a call that constructs an alert does to the manager, up to the callback
AlertAppended(score) ==
    /\ heap' = Append(heap, heap'[Len(heap')])
    /\ heap'[Len(heap')].score = score
    /\ heap'[Len(heap')].threshold = threshold
    /\ alert_history' = Append(alert_history, Len(heap'))

NothingHappened ==
    /\ lastOp'.result = NoRef
    /\ ~lastOp'.raised
    /\ UNCHANGED <<alert_history, heap, cbLog>>

C2_DisabledIsSilent ==
    [][~alert_enabled =>
          /\ heap' = heap
          /\ cbLog' = cbLog
          /\ (lastOp'.op \in CheckOps => NothingHappened)]_vars

C2_Witness ==
    /\ ~alert_enabled
    /\ lastOp.op \in CheckOps
    /\ lastOp.arg = 0
    /\ lastOp.arg < threshold
    /\ alert_history # <<>>

\* C3, as stated: unless clear_alerts is called, every step leaves the
\* recorded alerts, with all their fields, as a prefix of the history after
\* it, also the steps of a caller writing through the list get_alert_history
\* handed out and of a callback owner writing to the alert it was handed.
C3_AppendOnly ==
    [][lastOp'.op # "clear_alerts" =>
          /\ IsPrefix(alert_history, alert_history')
          /\ \A i \in 1 .. Len(alert_history) :
                heap'[alert_history[i]] = heap[alert_history[i]]]_vars

\* C4: when the callback raises, the alert of that call is in alert_history,
\* threshold and enabled flag are as before, the alert stays (only
\* clear_alerts removes it) and later calls are evaluated as usual: a
\* qualifying one appends and dispatches its own alert.
C4_CallbackFailure ==
    [][/\ lastOp'.raised =>
            /\ AlertAppended(lastOp'.arg)
            /\ UNCHANGED <<threshold, alert_enabled>>
       /\ (cbLog # <<>> /\ lastOp'.op # "clear_alerts") =>
            IsPrefix(alert_history, alert_history')
       /\ (alert_callback = "raises" /\ cbLog # <<>> /\ lastOp'.op \in CheckOps) =>
            IF alert_enabled /\ lastOp'.arg < threshold
            THEN /\ AlertAppended(lastOp'.arg)
                 /\ cbLog' = Append(cbLog, Len(heap'))
            ELSE NothingHappened]_vars

\* the callback raised in two calls: both alerts are recorded, both dispatched
C4_Witness ==
    /\ alert_callback = "raises"
    /\ lastOp.raised
    /\ alert_history = <<1, 2>>
    /\ cbLog = <<1, 2>>

\* C5, as stated: the threshold is in [0, 100] in every state.
C5_ThresholdInRange == ThresholdMin <= threshold /\ threshold <= ThresholdMax

\* C6: set_threshold(v) stores v when 0 <= v <= 100 and keeps the threshold
\* otherwise, without raising; history and enabled flag are as before, and the
\* next check_sentiment constructs an alert iff its score is below the result.
C6_SetThreshold ==
    [][/\ lastOp'.op = "set_threshold" =>
            /\ threshold' = IF 0 <= lastOp'.arg /\ lastOp'.arg <= 100
                            THEN lastOp'.arg ELSE threshold
            /\ ~lastOp'.raised
            /\ UNCHANGED <<alert_history, heap, alert_enabled, cbLog>>
       /\ (lastOp.op = "set_threshold" /\ lastOp'.op = "check_sentiment"
             /\ alert_enabled) =>
            (Len(heap') = Len(heap) + 1) = (lastOp'.arg < threshold)]_vars

\* after set_threshold(100) a score of 30, not below the default, gave an alert
C6_Witness ==
    /\ lastOp.op = "check_sentiment"
    /\ lastOp.arg = DefaultThreshold
    /\ threshold = ThresholdMax
    /\ alert_history # <<>>
    /\ heap[Len(heap)].score = DefaultThreshold
    /\ heap[Len(heap)].threshold = ThresholdMax

\* C7: clear_alerts empties alert_history, enabled or not, leaves threshold
\* and enabled flag as they are, and leaves a list get_alert_history handed
\* out before with its elements.
C7_ClearAlerts ==
    [][lastOp'.op = "clear_alerts" =>
          /\ alert_history' = <<>>
          /\ UNCHANGED <<threshold, alert_enabled, heap>>
          /\ returned'.held = returned.held
          /\ ReturnedItems' = ReturnedItems]_vars

\* cleared while disabled, with a list of two alerts in the caller's hands
C7_Witness ==
    /\ lastOp.op = "clear_alerts"
    /\ ~alert_enabled
    /\ alert_history = <<>>
    /\ returned.held = "own"
    /\ Len(returned.items) = 2

\* C8: every alert carries the severity of its score's band, whatever the
\* threshold: below 10 critical, 10..19 high, 20..29 medium, 30 and up low.
C8_SeverityBands ==
    \A i \in 1 .. Len(heap) :
        LET a == heap[i]
        IN  /\ a.score < 10 => a.severity = "critical"
            /\ (10 <= a.score /\ a.score < 20) => a.severity = "high"
            /\ (20 <= a.score /\ a.score < 30) => a.severity = "medium"
            /\ a.score >= 30 => a.severity = "low"

\* threshold 30: 29 is medium; a higher threshold: 35 is low
C8_Witness ==
    \E i, j \in 1 .. Len(heap) :
        /\ heap[i].score = 29 /\ heap[i].threshold = 30 /\ heap[i].severity = "medium"
        /\ heap[j].score = 35 /\ heap[j].severity = "low"

\* C9, as stated: add_message(role, content) fails, reporting to the caller,
\* when role is neither 'user' nor 'assistant' and when content is empty, and
\* then leaves history and updated_at as they are; otherwise it appends one
\* message with that role and content at the end of history.
C9_AddMessage ==
    [][lastOp'.op = "add_message" =>
          LET role == lastOp'.role
              content == lastOp'.content
          IN  IF role \notin {"user", "assistant"} \/ content = ""
              THEN /\ lastOp'.raised
                   /\ UNCHANGED <<history, msgs, updated_at>>
              ELSE /\ ~lastOp'.raised
                   /\ msgs' = Append(msgs, msgs'[Len(msgs')])
                   /\ msgs'[Len(msgs')].role = role
                   /\ msgs'[Len(msgs')].content = content
                   /\ history' = Append(history, Len(msgs'))]_vars

SessionOps ==
    {"add_message", "get_history", "clear", "save_to_file", "format_for_sentiment",
     "get_user_messages", "get_message_count", "get_user_message_count"}

\* C10, as stated: whatever operation of the session is called, clear among
\* them, the messages before the call are a prefix of the messages after it.
C10_AppendOnly ==
    [][lastOp'.op \in SessionOps =>
          IsPrefix(DerefMsgs(msgs, history), DerefMsgs(msgs', history'))]_vars

\* C10, amended: every operation of the session but clear leaves the messages
\* before the call as a prefix of the messages after it; clear empties the
\* history.
C10_AppendOnlyUntilClear ==
    [][lastOp'.op \in SessionOps =>
          IF lastOp'.op = "clear"
          THEN history' = <<>>
          ELSE IsPrefix(DerefMsgs(msgs, history), DerefMsgs(msgs', history'))]_vars

\* a second message was appended behind a different first one, after the
\* history was read and saved
C10_Witness ==
    /\ lastOp.op = "add_message"
    /\ ~lastOp.raised
    /\ history = <<1, 2>>
    /\ msgs[1] # msgs[2]
    /\ got_history.held = "own"
    /\ file.exists

\* C11, as stated: nothing a caller does to the value get_history returned,
\* removing elements or changing a returned message, changes the session's
\* history.
C11_DefensiveCopy ==
    [][lastOp'.op \in {"caller_pop", "caller_write"} =>
          DerefMsgs(msgs', history') = DerefMsgs(msgs, history)]_vars

\* C12, as stated: updated_at never decreases, created_at <= updated_at, and
\* every mutating operation (a successful add_message, a clear) leaves
\* updated_at at the time of the operation.
C12_UpdatedAt ==
    [][/\ updated_at' >= updated_at
       /\ created_at' <= updated_at'
       /\ (\/ lastOp'.op = "clear"
           \/ lastOp'.op = "add_message" /\ ~lastOp'.raised) => updated_at' = now']_vars

\* C13: a load that directly follows a save yields a session with the same
\* session_id and the same history (length, order, role, content, timestamp of
\* every message), and a save that directly follows a save writes the same
\* text again.
C13_RoundTrip ==
    [][/\ (lastOp.op = "save_to_file" /\ lastOp'.op = "load_from_file") =>
              /\ ~lastOp'.raised
              /\ loaded'.session_id = session_id
              /\ loaded'.history = DerefMsgs(msgs, history)
       /\ (lastOp.op = "save_to_file" /\ lastOp'.op = "save_to_file") =>
              file' = file]_vars

C13_Witness ==
    /\ lastOp.op = "load_from_file"
    /\ ~lastOp.raised
    /\ Len(history) >= 2
    /\ msgs[history[1]] # msgs[history[2]]
    /\ loaded.history = DerefMsgs(msgs, history)
    /\ loaded.session_id = session_id
    /\ file.text = json_dump(to_dict)

\* C14, as stated: when no save is under way (it returned, or the process
\* crashed inside it) the file is absent or holds one complete document, and a
\* load never fails on a file that exists, whenever it runs.
C14_AtomicSave ==
    /\ (~writer.open /\ file.exists) => IsDocument(file.text)
    /\ (lastOp.op = "load_from_file" /\ file.exists) => ~lastOp.raised

\* the real value v / Den becomes the integer k by cutting off its fraction
Truncates(v, k) == k * Den <= v /\ v < (k + 1) * Den

\* C15: the score is an integer in 0..100; for the label positive it is
\* 50 + positive * 50, in 50..100 and 100 at probability 1; for the label
\* negative it is 50 - negative * 50, in 0..50 and 10 at probability 0.8; for
\* any other label it is 50 + (positive - negative) * 10 kept within 0..100,
\* 55 at 0.6 and 0.1; each is made an integer by cutting off the fraction.
C15_ScoreFormula ==
    analysis.has_score =>
        LET sc == analysis.scores
            k == analysis.score
        IN  /\ k \in 0 .. 100
            /\ analysis.label = "positive" =>
                  /\ Truncates(50 * Den + sc.positive * 50, k)
                  /\ k \in 50 .. 100
                  /\ sc.positive = Den => k = 100
            /\ analysis.label = "negative" =>
                  /\ Truncates(50 * Den - sc.negative * 50, k)
                  /\ k \in 0 .. 50
                  /\ sc.negative * 10 = 8 * Den => k = 10
            /\ analysis.label \notin {"positive", "negative"} =>
                  /\ Truncates(50 * Den + (sc.positive - sc.negative) * 10, k)
                  /\ sc.positive * 10 = 6 * Den /\ sc.negative * 10 = Den => k = 55

C15_Witness ==
    /\ analysis.has_score
    /\ analysis.label = "positive"
    /\ analysis.scores.positive = 33
    /\ analysis.score = 66

\* C16, as stated: the result of analyze or analyze_statement for a text that
\* is empty or only blanks has label neutral, confidence 0, scores 0.33 / 0.34 /
\* 0.33 and score 50, and check_statement_sentiment evaluates the score 50
\* from such a result.
C16_EmptyText ==
    /\ (lastOp.op \in {"analyze", "analyze_statement"} /\ strip(lastOp.content) = "") =>
          /\ analysis.label = "neutral"
          /\ analysis.confidence = 0
          /\ analysis.scores = EmptyTextScores
          /\ analysis.has_score
          /\ analysis.score = DefaultScore
    /\ (/\ lastOp.op = "check_statement_sentiment"
        /\ analysis.confidence = 0
        /\ analysis.scores = EmptyTextScores) => lastOp.arg = DefaultScore

\* the number of user messages among the first n messages of a history
UsersBefore(hist, n) == Cardinality({j \in 1 .. n : hist[j].role = "user"})

\* C17: the CSV has one row for each message, in the order of the history;
\* the row of the k-th user message (from 0) shows the k-th result exactly if
\* there are more than k results, and every other row shows the placeholders;
\* assistant messages use up no result; the PDF table shows a result in the
\* same rows, and the same result, as the CSV.
C17_ExportRows ==
    LET hist == export.conversation_history
        res == IF export.given THEN export.sentiment_results ELSE <<>>
        \* row 1 of either table is the header
        Carried(i) == res[UsersBefore(hist, i - 1) + 1]
        Carries(i) == hist[i].role = "user" /\ UsersBefore(hist, i - 1) < Len(res)
    IN  /\ export.csv_done =>
              /\ Len(export.csv) = Len(hist) + 1
              /\ \A i \in 1 .. Len(hist) :
                    /\ SubSeq(export.csv[i + 1], 1, 3) =
                           <<ToString(i), hist[i].role, hist[i].content>>
                    /\ SubSeq(export.csv[i + 1], 4, 6) =
                           IF Carries(i)
                           THEN <<Carried(i).label, GetScore(Carried(i)),
                                  Percent(Carried(i).confidence)>>
                           ELSE <<"N/A", "N/A", "N/A">>
        /\ (export.csv_done /\ export.pdf_done) =>
              /\ Len(export.pdf) = Len(export.csv)
              /\ \A i \in 1 .. Len(hist) :
                    IF Carries(i)
                    THEN /\ export.pdf[i + 1][4] = capitalize(export.csv[i + 1][4])
                         /\ export.pdf[i + 1][5] = export.csv[i + 1][5]
                    ELSE /\ export.pdf[i + 1][4] = "-"
                         /\ export.pdf[i + 1][5] = "-"

C17_Witness ==
    /\ export.csv_done /\ export.pdf_done
    /\ Len(export.conversation_history) = 3
    /\ export.conversation_history[1].role = "assistant"
    /\ export.conversation_history[2].role = "user"
    /\ export.conversation_history[3].role = "user"
    /\ export.given /\ Len(export.sentiment_results) = 1
    /\ export.csv[3][4] = "negative"
    /\ export.csv[4][4] = "N/A"
    /\ export.pdf[3][4] = "Negative"

====
